---- MODULE Spec2Model ----
(***************************************************************************)
(* Model of the loto-site issuance pipeline (frontend/js):                 *)
(*   auth.js            - LotoAuth session manager (token, cached profile, *)
(*                        fetchWithAuth)                                   *)
(*   loto6-logic.js     - loto6 logic page (draw fetch per click)          *)
(*   loto7-logic.js     - loto7 logic page (draw fetch at page load)       *)
(*   loto7-fortune.js   - loto7 fortune page (birth date, tickets only)    *)
(*                                                                         *)
(* JavaScript runs every callback to completion: one action of the model   *)
(* is one task (an event handler, or the continuation of one await) with   *)
(* all the synchronous calls and promise continuations it runs.            *)
(*                                                                         *)
(* A JavaScript value that may be missing (undefined / null) is a sequence *)
(* of length 0 (missing) or 1 (present): None, Some(v).                    *)
(***************************************************************************)
EXTENDS Integers, Sequences, FiniteSets

VARIABLES
  token,        \* localStorage["access_token"]: None or Some(credential)
  user,         \* localStorage["user"]: None or Some(profile)
  location,     \* window.location.href, as last assigned
  unloaded,     \* the navigation has replaced the document: nothing runs any more
  dispatches,   \* direct callers of LotoAuth.fetchWithAuth, one record per call slot
  gen,          \* one call of generateUniqueNumbersWithFixed
  page,         \* which page script is loaded
  ui,           \* the DOM the page script writes
  round,        \* page variable round
  drawDate,     \* page variable drawDate
  pageDraw,     \* the page-load fetchLatestDraw() of loto7-logic.js
  attempts,     \* issuance attempts (click handlers) in flight, one per slot
  last,         \* the attempt that ended most recently, as it ended (until the next click)
  useMock,      \* the value of the USE_MOCK switch in the loaded page script
  gate,         \* one call of LotoAuth.requirePremium
  clamp,        \* one evaluation of clampInt(x, 1, 100), and of clampInt on its result
  cached        \* the last evaluation of LotoAuth.isPremium()

vars == <<token, user, location, unloaded, dispatches, gen,
          page, ui, round, drawDate, pageDraw, attempts, last, useMock, gate, clamp, cached>>

None == <<>>
Some(v) == <<v>>
IsSome(o) == Len(o) = 1
Get(o) == o[1]

Min2(a, b) == IF a <= b THEN a ELSE b
Max2(a, b) == IF a >= b THEN a ELSE b

(***************************************************************************)
(* Bounds of the exploration.                                              *)
(***************************************************************************)
MaxCalls == 2       \* concurrent direct fetchWithAuth calls
MaxInFlight == 2    \* slots for issuance attempts in flight
MaxSelect == 3      \* largest issueSelect option explored (the page offers 1..100)
GenMax == 4         \* generator numbers are drawn from 1..GenMax
MaxDraws == 4       \* random draws followed per generator call
ClampReach == 205   \* clampInt is given the numbers k/1 and k/2 for -ClampReach <= k <= ClampReach

(***************************************************************************)
(* HTTP                                                                    *)
(***************************************************************************)
Statuses == {200, 401, 403, 500}

\* What `await fetch(...)` settles to: a Response with a status, or a
\* rejection (transport failure).
Responses == [rejected : {FALSE}, status : Statuses] \cup {[rejected |-> TRUE, status |-> 0]}

\* Response.ok
ResOk(res) == res.status >= 200 /\ res.status <= 299

(***************************************************************************)
(* auth.js                                                                 *)
(***************************************************************************)
Credentials == {"tok1"}
Profiles == [is_premium : BOOLEAN]

LoginPage == "login.html"
HerePage == "here"

\* getToken(): the stored item or null
getToken == token

\* removeToken(); removeUser()
removeToken(store) == [store EXCEPT !.token = None]
removeUser(store) == [store EXCEPT !.user = None]

\* The request options direct callers pass: method, headers, body.
\* body: "none" (no body), "empty" (the empty string, falsy), "string", "formData".
\* headers: the caller's Authorization, Content-Type and one more header
\* (Accept), each given or not.
RequestOptions ==
  { [method |-> "GET",    body |-> "none",     headers |-> [Authorization |-> None, ContentType |-> None, Accept |-> None]],
    [method |-> "DELETE", body |-> "none",     headers |-> [Authorization |-> None, ContentType |-> None, Accept |-> None]],
    [method |-> "POST",   body |-> "string",   headers |-> [Authorization |-> None, ContentType |-> None, Accept |-> None]],
    [method |-> "POST",   body |-> "string",   headers |-> [Authorization |-> None, ContentType |-> Some("text/plain"), Accept |-> None]],
    [method |-> "POST",   body |-> "formData", headers |-> [Authorization |-> None, ContentType |-> None, Accept |-> None]] }

GetOptions == [method |-> "GET", body |-> "none", headers |-> [Authorization |-> None, ContentType |-> None, Accept |-> None]]

\* Every combination of method, body and caller headers.
CallerAuthorization == [scheme |-> "Bearer", credential |-> "caller"]
AllRequestOptions ==
  [method : {"GET", "POST"},
   body : {"none", "empty", "string", "formData"},
   headers : [Authorization : {None, Some(CallerAuthorization)},
              ContentType : {None, Some("text/plain")},
              Accept : {None, Some("text/html")}]]

\* A header step that leaves an Authorization header of the caller alone.
fetchWithAuthHeadersKeepsCallerAuth(tok, options) ==
  LET h1 == IF IsSome(tok) /\ ~IsSome(options.headers.Authorization)
            THEN [options.headers EXCEPT !.Authorization = Some([scheme |-> "Bearer", credential |-> Get(tok)])]
            ELSE options.headers
  IN  IF ~IsSome(h1.ContentType) /\ options.body = "string"
      THEN [h1 EXCEPT !.ContentType = Some("application/json")]
      ELSE h1

\* A header step that adds the content type for a body of any kind.
fetchWithAuthHeadersAnyBody(tok, options) ==
  LET h1 == IF IsSome(tok)
            THEN [options.headers EXCEPT !.Authorization = Some([scheme |-> "Bearer", credential |-> Get(tok)])]
            ELSE options.headers
  IN  IF ~IsSome(h1.ContentType) /\ options.body # "none"
      THEN [h1 EXCEPT !.ContentType = Some("application/json")]
      ELSE h1

\* fetchWithAuth, up to `await fetch`: the headers of the request sent.
fetchWithAuthHeaders(tok, options) ==
  LET h1 == IF IsSome(tok)
            THEN [options.headers EXCEPT !.Authorization = Some([scheme |-> "Bearer", credential |-> Get(tok)])]
            ELSE options.headers
  IN  IF ~IsSome(h1.ContentType) /\ options.body = "string"
      THEN [h1 EXCEPT !.ContentType = Some("application/json")]
      ELSE h1

\* A broken 401 branch that forgets removeUser().
fetchWithAuthSettleKeepsUser(res, store) ==
  IF res.rejected
  THEN [store |-> store, thrown |-> "Failed to fetch", removeTokenCalls |-> 0, removeUserCalls |-> 0, navigations |-> 0]
  ELSE IF res.status = 401
  THEN [store |-> [removeToken(store) EXCEPT !.location = LoginPage],
        thrown |-> "Unauthorized", removeTokenCalls |-> 1, removeUserCalls |-> 0, navigations |-> 1]
  ELSE [store |-> store, thrown |-> "", removeTokenCalls |-> 0, removeUserCalls |-> 0, navigations |-> 0]

\* A branch that treats 403 as it treats 401.
fetchWithAuthSettleClearsOn403(res, store) ==
  IF res.rejected
  THEN [store |-> store, thrown |-> "Failed to fetch", removeTokenCalls |-> 0, removeUserCalls |-> 0, navigations |-> 0]
  ELSE IF res.status = 401 \/ res.status = 403
  THEN [store |-> [removeUser(removeToken(store)) EXCEPT !.location = LoginPage],
        thrown |-> "Unauthorized", removeTokenCalls |-> 1, removeUserCalls |-> 1, navigations |-> 1]
  ELSE [store |-> store, thrown |-> "", removeTokenCalls |-> 0, removeUserCalls |-> 0, navigations |-> 0]

\* fetchWithAuth, from the settling of `await fetch` to its return or throw:
\* the storage and location it leaves, what it throws ("" = returns res), and
\* how many times it called removeToken, removeUser and assigned location.
fetchWithAuthSettle(res, store) ==
  IF res.rejected
  THEN [store |-> store, thrown |-> "Failed to fetch", removeTokenCalls |-> 0, removeUserCalls |-> 0, navigations |-> 0]
  ELSE IF res.status = 401
  THEN [store |-> [removeUser(removeToken(store)) EXCEPT !.location = LoginPage],
        thrown |-> "Unauthorized", removeTokenCalls |-> 1, removeUserCalls |-> 1, navigations |-> 1]
  ELSE [store |-> store, thrown |-> "", removeTokenCalls |-> 0, removeUserCalls |-> 0, navigations |-> 0]

Store == [token |-> token, user |-> user, location |-> location]

SetStore(s) ==
  /\ token' = s.token
  /\ user' = s.user
  /\ location' = s.location

IdleDispatch ==
  [pc |-> "idle", options |-> GetOptions, headers |-> GetOptions.headers,
   tokenAtCall |-> None,    \* getToken() as the call read it
   status |-> 0,
   thrown |-> "", removeTokenCalls |-> 0, removeUserCalls |-> 0, navigations |-> 0]

\* A caller calls LotoAuth.fetchWithAuth(url, options): runs to `await fetch`.
DispatchCall(i, options) ==
  /\ ~unloaded
  /\ dispatches[i].pc = "idle"
  /\ \A j \in 1..(i - 1) : dispatches[j].pc # "idle"
  /\ dispatches' = [dispatches EXCEPT ![i] =
        [IdleDispatch EXCEPT !.pc = "sent", !.options = options,
                             !.tokenAtCall = getToken,
                             !.headers = fetchWithAuthHeaders(getToken, options)]]
  /\ UNCHANGED <<token, user, location, unloaded>>

\* The fetch of call i settles with res: fetchWithAuth runs to its end.
DispatchSettle(i, res) ==
  /\ ~unloaded
  /\ dispatches[i].pc = "sent"
  /\ LET r == fetchWithAuthSettle(res, Store)
     IN  /\ SetStore(r.store)
         /\ dispatches' = [dispatches EXCEPT ![i] =
               [@ EXCEPT !.pc = IF r.thrown = "" THEN "returned" ELSE "threw",
                         !.status = res.status,
                         !.thrown = r.thrown,
                         !.removeTokenCalls = @ + r.removeTokenCalls,
                         !.removeUserCalls = @ + r.removeUserCalls,
                         !.navigations = @ + r.navigations]]
  /\ UNCHANGED unloaded

\* The caller is done with the result of call i.
DispatchForget(i) ==
  /\ ~unloaded
  /\ dispatches[i].pc \in {"returned", "threw"}
  /\ dispatches' = [dispatches EXCEPT ![i] = IdleDispatch]
  /\ UNCHANGED <<token, user, location, unloaded>>

\* The navigation started by an assignment to window.location.href commits.
Unload ==
  /\ ~unloaded
  /\ location # HerePage
  /\ unloaded' = TRUE
  /\ UNCHANGED <<token, user, location>>

\* ---- isPremium, logout ----------------------------------------------------
\* getUser(): JSON.parse of the stored item, null when there is none.
getUser(store) == store.user

\* A cached check that looks at the token instead of the profile.
isPremiumFromToken(store) ==
  [store |-> store, result |-> IsSome(store.token)]

\* isPremium(): const user = getUser(); return user && user.is_premium;
\* the storage and location it leaves, and whether its result is truthy.
isPremium(store) ==
  [store |-> store,
   result |-> IF IsSome(getUser(store)) THEN Get(getUser(store)).is_premium ELSE FALSE]

NotRead == [read |-> FALSE, result |-> FALSE, profile |-> None]

\* A page evaluates LotoAuth.isPremium().
IsPremiumRead ==
  /\ ~unloaded
  /\ LET r == isPremium(Store)
     IN  /\ SetStore(r.store)
         /\ cached' = [read |-> TRUE, result |-> r.result, profile |-> getUser(Store)]
  /\ UNCHANGED unloaded

\* logout(): removeToken(); removeUser(); window.location.href = "login.html"
logout(store) == [removeUser(removeToken(store)) EXCEPT !.location = LoginPage]

\* A page calls LotoAuth.logout().
Logout ==
  /\ ~unloaded
  /\ IsSome(token) \/ IsSome(user)
  /\ SetStore(logout(Store))
  /\ UNCHANGED unloaded

\* ---- requirePremium -------------------------------------------------------
UnpaidPage == "login.html?status=unpaid"

\* What `await res.json()` of /auth/me is explored with: a profile with its
\* is_premium flag, or JSON null (None).
MeBodies == {Some(p) : p \in Profiles} \cup {None}

\* setUser(user): JSON.stringify into localStorage; getUser() parses it back
\* (null for a stored "null" as for a missing item).
setUser(store, body) == [store EXCEPT !.user = body]

\* requirePremium, up to `await fetch`: without a token it assigns location
\* and returns false (returned = Some(FALSE)); with one it sends the request
\* (returned = None: not yet).
requirePremiumEntry(store) ==
  IF ~IsSome(store.token)
  THEN [store |-> [store EXCEPT !.location = LoginPage], returned |-> Some(FALSE), target |-> LoginPage]
  ELSE [store |-> store, returned |-> None, target |-> ""]

\* requirePremium, from the settling of `await fetch` to `await res.json()`
\* or to its return.
requirePremiumSettle(res, store) ==
  IF res.rejected
  THEN [store |-> [store EXCEPT !.location = LoginPage], returned |-> Some(FALSE), target |-> LoginPage]
  ELSE IF res.status = 401
  THEN [store |-> [removeUser(removeToken(store)) EXCEPT !.location = LoginPage],
        returned |-> Some(FALSE), target |-> LoginPage]
  ELSE IF ~ResOk(res)
  THEN [store |-> [store EXCEPT !.location = LoginPage], returned |-> Some(FALSE), target |-> LoginPage]
  ELSE [store |-> store, returned |-> None, target |-> ""]

\* A profile step that sends a non-premium user to the plain login page.
requirePremiumJsonPlainLogin(body, store) ==
  IF ~IsSome(body)
  THEN [store |-> [setUser(store, body) EXCEPT !.location = LoginPage], returned |-> Some(FALSE), target |-> LoginPage]
  ELSE IF ~Get(body).is_premium
  THEN [store |-> [setUser(store, body) EXCEPT !.location = LoginPage], returned |-> Some(FALSE), target |-> LoginPage]
  ELSE [store |-> setUser(store, body), returned |-> Some(TRUE), target |-> ""]

\* requirePremium, from `await res.json()` giving body to its return:
\* setUser(user); a null body makes user.is_premium throw, which the catch
\* turns into the plain login redirect.
requirePremiumJson(body, store) ==
  IF ~IsSome(body)
  THEN [store |-> [setUser(store, body) EXCEPT !.location = LoginPage], returned |-> Some(FALSE), target |-> LoginPage]
  ELSE IF ~Get(body).is_premium
  THEN [store |-> [setUser(store, body) EXCEPT !.location = UnpaidPage], returned |-> Some(FALSE), target |-> UnpaidPage]
  ELSE [store |-> setUser(store, body), returned |-> Some(TRUE), target |-> ""]

\* One call of requirePremium: where it is, what it saw (the token at the
\* call, the response, the body) and what it did (the location it assigned,
\* the value it returned).
IdleGate ==
  [pc |-> "idle", hadToken |-> FALSE, responded |-> FALSE, status |-> 0,
   parsed |-> FALSE, body |-> None, target |-> "", returned |-> None]

GateStep(g, r, pcNext) ==
  [g EXCEPT !.pc = IF IsSome(r.returned) THEN "done" ELSE pcNext,
            !.target = r.target, !.returned = r.returned]

\* A page calls LotoAuth.requirePremium().
GateCall ==
  /\ ~unloaded
  /\ gate.pc \in {"idle", "done"}
  /\ LET r == requirePremiumEntry(Store)
     IN  /\ SetStore(r.store)
         /\ gate' = GateStep([IdleGate EXCEPT !.hadToken = IsSome(token)], r, "fetch")
  /\ UNCHANGED unloaded

\* The fetch of /auth/me settles.
GateSettle(res) ==
  /\ ~unloaded
  /\ gate.pc = "fetch"
  /\ LET r == requirePremiumSettle(res, Store)
     IN  /\ SetStore(r.store)
         /\ gate' = GateStep([gate EXCEPT !.responded = ~res.rejected, !.status = res.status], r, "json")
  /\ UNCHANGED unloaded

\* `await res.json()` of /auth/me rejects: the catch.
GateJsonFail ==
  /\ ~unloaded
  /\ gate.pc = "json"
  /\ location' = LoginPage
  /\ gate' = [gate EXCEPT !.pc = "done", !.target = LoginPage, !.returned = Some(FALSE)]
  /\ UNCHANGED <<token, user, unloaded>>

\* `await res.json()` of /auth/me gives body.
GateJson(body) ==
  /\ ~unloaded
  /\ gate.pc = "json"
  /\ LET r == requirePremiumJson(body, Store)
     IN  /\ SetStore(r.store)
         /\ gate' = GateStep([gate EXCEPT !.parsed = TRUE, !.body = body], r, "done")
  /\ UNCHANGED unloaded


(***************************************************************************)
(* generateUniqueNumbersWithFixed / randInt                                *)
(***************************************************************************)
\* new Set(iterable) and Set.add keep the first insertion of a value, in
\* insertion order: a sequence without repetition.
SetHas(s, x) == \E i \in 1..Len(s) : s[i] = x
SetAdd(s, x) == IF SetHas(s, x) THEN s ELSE Append(s, x)

RECURSIVE NewSet(_)
NewSet(items) ==
  IF items = <<>> THEN <<>>
  ELSE SetAdd(NewSet(SubSeq(items, 1, Len(items) - 1)), items[Len(items)])

\* Insert x into the ascending sequence s.
RECURSIVE InsertAsc(_, _)
InsertAsc(s, x) ==
  IF s = <<>> THEN <<x>>
  ELSE IF x - s[1] < 0 THEN <<x>> \o s
  ELSE <<s[1]>> \o InsertAsc(Tail(s), x)

\* A return that forgets the sort: Array.from(set) in insertion order.
sortNumericMissing(s) == s

\* Array.prototype.sort((a, b) => a - b)
RECURSIVE sortNumeric(_)
sortNumeric(s) ==
  IF s = <<>> THEN <<>>
  ELSE InsertAsc(sortNumeric(Tail(s)), s[1])

\* randInt(min, max): Math.floor(Math.random() * (max - min + 1)) + min with
\* Math.random() in [0, 1): any integer of min..max (for min <= max).
randInt(min, max) == min..max

\* The configurations explored: ranges within 1..GenMax, ticket sizes
\* 0..GenMax, and fixed-number lists of up to two numbers of 0..GenMax+1
\* (so lists with a repeated or an out-of-range number are among them).
GenNumbers == 0..(GenMax + 1)
GenFixedLists ==
  {<<>>} \cup {<<a>> : a \in GenNumbers} \cup {<<a, b>> : a \in GenNumbers, b \in GenNumbers}
GenConfigs ==
  {c \in [min : 1..GenMax, max : 1..GenMax, total : 0..GenMax, fixedNumbers : GenFixedLists] :
     c.min <= c.max}

SeqRange(s) == {s[i] : i \in 1..Len(s)}
Distinct(s) == \A i, j \in 1..Len(s) : s[i] = s[j] => i = j
Ascending(s) == \A i \in 1..(Len(s) - 1) : s[i] < s[i + 1]

\* The input constraints of the generator (spec 4.1), plus a range that can
\* hold a ticket.
ValidConfig(c) ==
  /\ Distinct(c.fixedNumbers)
  /\ Len(c.fixedNumbers) <= c.total
  /\ \A x \in SeqRange(c.fixedNumbers) : c.min <= x /\ x <= c.max
  /\ c.max - c.min + 1 >= c.total

IdleGen == [pc |-> "idle", cfg |-> [min |-> 1, max |-> 1, total |-> 0, fixedNumbers |-> <<>>],
            set |-> <<>>, draws |-> 0, out |-> <<>>]

\* generateUniqueNumbersWithFixed(cfg) is called with some cfg: const set = new Set(fixedNumbers || [])
GenCall ==
  /\ gen.pc = "idle"
  /\ \E cfg \in GenConfigs :
       gen' = [IdleGen EXCEPT !.pc = "loop", !.cfg = cfg, !.set = NewSet(cfg.fixedNumbers)]

\* One turn of the loop: while (set.size < total) set.add(randInt(min, max))
GenDraw ==
  /\ gen.pc = "loop"
  /\ Len(gen.set) < gen.cfg.total
  /\ gen.draws < MaxDraws
  /\ \E r \in randInt(gen.cfg.min, gen.cfg.max) :
       gen' = [gen EXCEPT !.set = SetAdd(@, r), !.draws = @ + 1]

\* The loop ends: return Array.from(set).sort((a, b) => a - b)
GenReturn ==
  /\ gen.pc = "loop"
  /\ ~(Len(gen.set) < gen.cfg.total)
  /\ gen' = [gen EXCEPT !.pc = "done", !.out = sortNumeric(gen.set)]

(***************************************************************************)
(* The pages: loto6-logic.js, loto7-logic.js, loto7-fortune.js             *)
(***************************************************************************)
Pages == {"loto6", "loto7logic", "loto7fortune"}
LogicPages == {"loto6", "loto7logic"}

\* const USE_MOCK = false;
USE_MOCK == FALSE

\* initIssueSelect(issueSelect, 100): the options "1" .. "100"
SelectMax == 100

\* A JavaScript number: finite (num / den), or NaN, +Infinity, -Infinity.
Finite(n) == [cls |-> "finite", num |-> n, den |-> 1]
isFinite(x) == x.cls = "finite"
trunc(x) == IF x.num >= 0 THEN x.num \div x.den ELSE -((-x.num) \div x.den)

\* A clampInt without the Math.min: only the lower bound is applied.
clampIntLowerOnly(n, min, max) ==
  IF ~isFinite(n) THEN min ELSE Max2(min, trunc(n))

\* clampInt(n, min, max)
clampInt(n, min, max) ==
  IF ~isFinite(n) THEN min ELSE Max2(min, Min2(max, trunc(n)))

\* The values clampInt is explored with: the finite numbers num / den, NaN,
\* +Infinity, -Infinity, and a value that is not a number (a string).
NotFinite == {"nan", "posinf", "neginf", "string"}
ClampInputs ==
  [cls : {"finite"}, num : (-ClampReach)..ClampReach, den : {1, 2}]
  \cup [cls : NotFinite, num : {0}, den : {1}]

IdleClamp == [pc |-> "idle", x |-> Finite(1), once |-> 0, twice |-> 0]

\* clampInt(x, 1, 100) is evaluated.
ClampCall ==
  /\ clamp.pc = "idle"
  /\ \E x \in ClampInputs :
       clamp' = [IdleClamp EXCEPT !.pc = "once", !.x = x, !.once = clampInt(x, 1, 100)]

\* clampInt is evaluated on its own result.
ClampAgain ==
  /\ clamp.pc = "once"
  /\ clamp' = [clamp EXCEPT !.pc = "twice", !.twice = clampInt(Finite(clamp.once), 1, 100)]

\* ---- messages -----------------------------------------------------------
RetryLater == "retry-later"            \* the fixed message of the click handler's catch
DrawInfoFailed == "draw-info-failed"   \* the message of the page-load catch
SelectBirthDate == "select-birth-date" \* the fortune page's validation message
PremiumRequired == "PREMIUM_REQUIRED"
InvalidShape == "Invalid response shape"
InvalidTickets == "Invalid response: prediction.tickets is missing"

\* ---- engine payloads ----------------------------------------------------
T1 == <<1, 2, 3>>
T2 == <<4, 5, 6>>
T3 == <<7, 8, 9>>

Preds ==
  [numbers : {None, Some(T1)},
   tickets : {None, Some(<<>>), Some(<<T1, T2>>), Some(<<T1, T2, T3>>)},
   fixed_numbers : {None, Some(<<1>>)}]

EmptyPred == [numbers |-> None, tickets |-> None, fixed_numbers |-> None]

\* A complete record, as an element of a predictions array.
Rec(name, nums) ==
  [predictions |-> None,
   prediction |-> Some([numbers |-> Some(nums), tickets |-> None, fixed_numbers |-> Some(<<1>>)]),
   meta |-> name]
R1 == Rec("r1", T1)
R2 == Rec("r2", T2)

\* The JSON bodies an OK engine response is explored with: a predictions
\* array (shape a), a single envelope with every combination of
\* prediction.numbers / tickets / fixed_numbers (shapes b, c), an envelope
\* without prediction, and one body carrying both.
Payloads ==
  {[predictions |-> Some(l), prediction |-> None, meta |-> "env"] : l \in {<<>>, <<R1>>, <<R1, R2>>}}
  \cup {[predictions |-> None, prediction |-> Some(p), meta |-> "env"] : p \in Preds}
  \cup {[predictions |-> None, prediction |-> None, meta |-> "env"]}
  \cup {[predictions |-> Some(<<R2>>),
         prediction |-> Some([numbers |-> Some(T1), tickets |-> None, fixed_numbers |-> None]),
         meta |-> "env"]}

\* json?.prediction || {}
PredOf(json) == IF IsSome(json.prediction) THEN Get(json.prediction) ELSE EmptyPred
\* Array.isArray(pred.tickets) ? pred.tickets : []
TicketsOf(pred) == IF IsSome(pred.tickets) THEN Get(pred.tickets) ELSE <<>>
\* Array.isArray(pred.fixed_numbers) ? pred.fixed_numbers : []
FixedOf(pred) == IF IsSome(pred.fixed_numbers) THEN Get(pred.fixed_numbers) ELSE <<>>
\* pred.numbers || []
NumbersOf(pred) == IF IsSome(pred.numbers) THEN Get(pred.numbers) ELSE <<>>

\* What the prediction step hands to the page: an array of records or one
\* JSON object.
NoValue == [kind |-> "none", list |-> <<>>, json |-> None]
ArrayValue(l) == [kind |-> "array", list |-> l, json |-> None]
ObjectValue(d) == [kind |-> "object", list |-> <<>>, json |-> Some(d)]

\* A status check that takes every non-OK status for the paywall.
fetchPredictionsStatusAnyNotOk(res) ==
  IF ~ResOk(res) THEN PremiumRequired ELSE ""

\* fetchPredictionsFromEngine / fetchFortuneOnce, after fetchWithAuth has
\* returned res: what the status checks throw ("" = nothing).
fetchPredictionsStatus(res) ==
  IF res.status = 403 THEN PremiumRequired
  ELSE IF ~ResOk(res) THEN "Engine error"
  ELSE ""

\* A shape check that returns the whole body for shape (a).
fetchPredictionsFromEngineShapeWhole(data) ==
  IF IsSome(data.predictions) THEN [thrown |-> "", value |-> ObjectValue(data)]
  ELSE IF IsSome(PredOf(data).numbers) THEN [thrown |-> "", value |-> ObjectValue(data)]
  ELSE [thrown |-> InvalidShape, value |-> NoValue]

\* fetchPredictionsFromEngine, after `await res.json()` gave data:
\*   if (Array.isArray(data?.predictions)) return data.predictions;
\*   if (data?.prediction?.numbers) return data;
\*   throw new Error("Invalid response shape");
fetchPredictionsFromEngineShape(data) ==
  IF IsSome(data.predictions) THEN [thrown |-> "", value |-> ArrayValue(Get(data.predictions))]
  ELSE IF IsSome(PredOf(data).numbers) THEN [thrown |-> "", value |-> ObjectValue(data)]
  ELSE [thrown |-> InvalidShape, value |-> NoValue]

\* fetchFortuneOnce, after `await res.json()` gave data:
\*   if (!Array.isArray(data?.prediction?.tickets)) throw ...; return data;
fetchFortuneOnceShape(data) ==
  IF ~IsSome(PredOf(data).tickets) THEN [thrown |-> InvalidTickets, value |-> NoValue]
  ELSE [thrown |-> "", value |-> ObjectValue(data)]

\* The e.message === "PREMIUM_REQUIRED" test of the click handlers' catch.
isPremiumRequired(message) == message = PremiumRequired

\* renderPredictionCard(json, index): the numbers the card shows,
\* json?.prediction?.numbers || []
renderPredictionCard(json) == NumbersOf(PredOf(json))

\* loto7-logic.js showPredictions(payload, count): the list it renders.
showPredictionsList(value, count) ==
  IF value.kind = "array" THEN value.list
  ELSE LET json == Get(value.json)
           pred == PredOf(json)
           tickets == TicketsOf(pred)
           fixed == FixedOf(pred)
           baseTickets == IF Len(tickets) > 0 THEN tickets ELSE <<NumbersOf(pred)>>
           slice == SubSeq(baseTickets, 1, Min2(count, Len(baseTickets)))
       IN  [i \in 1..Len(slice) |->
              [json EXCEPT !.prediction =
                 Some([pred EXCEPT !.numbers = Some(slice[i]), !.fixed_numbers = Some(fixed)])]]

\* loto6-logic.js showPredictions(data): the tickets it renders, one card each:
\*   const pred = data?.prediction || {};
\*   const tickets = Array.isArray(pred.tickets) ? pred.tickets : [];
showPredictionsTickets(value) ==
  IF value.kind = "array" THEN <<>>
  ELSE TicketsOf(PredOf(Get(value.json)))

\* ---- mockFetchPredictions ------------------------------------------------
\* The generator configuration mockFetchPredictions passes on page pg.
MockVariant(pg) ==
  IF pg = "loto6"
  THEN [min |-> 1, max |-> 43, total |-> 6, fixedNumbers |-> <<11, 22>>]
  ELSE [min |-> 1, max |-> 37, total |-> 7, fixedNumbers |-> <<7, 17>>]

\* randInt(min, max) for one value of Math.random(), given in thousandths:
\* Math.floor(Math.random() * (max - min + 1)) + min
randIntOf(u, min, max) == ((u * (max - min + 1)) \div 1000) + min

\* The sequences of Math.random() values (in thousandths) one generator call
\* of the mock path is explored with: both ends of [0, 1), values that give
\* a fixed number of either variant (170 and 440 give 7 and 17 of 1..37,
\* 240 and 500 give 11 and 22 of 1..43), and values that repeat a draw.
RandomStreams ==
  { <<0, 999, 170, 440, 240, 500, 100, 300, 700, 900>>,
    <<500, 500, 240, 10, 20, 30, 40, 50, 60, 70>>,
    <<999, 998, 997, 1, 2, 3, 600, 601, 800, 850>> }

\* generateUniqueNumbersWithFixed(cfg) from the loop on, the Set holding set
\* and Math.random() giving stream: the array returned (none when the
\* stream ends before the loop does).
RECURSIVE generateUniqueNumbersWithFixed(_, _, _)
generateUniqueNumbersWithFixed(cfg, set, stream) ==
  IF ~(Len(set) < cfg.total) THEN {sortNumeric(set)}
  ELSE IF stream = <<>> THEN {}
  ELSE generateUniqueNumbersWithFixed(cfg, SetAdd(set, randIntOf(Head(stream), cfg.min, cfg.max)), Tail(stream))

\* The tickets one turn of the mock loop can get on each page.
MockTickets6 ==
  UNION { generateUniqueNumbersWithFixed(MockVariant("loto6"), NewSet(MockVariant("loto6").fixedNumbers), st) :
            st \in RandomStreams }
MockTickets7 ==
  UNION { generateUniqueNumbersWithFixed(MockVariant("loto7logic"), NewSet(MockVariant("loto7logic").fixedNumbers), st) :
            st \in RandomStreams }
MockTickets(pg) == IF pg = "loto6" THEN MockTickets6 ELSE MockTickets7

\* A mock loop that stops one record short.
mockFetchPredictionsOneShort(pg, tickets) ==
  [i \in 1..(Len(tickets) - 1) |->
     [predictions |-> None,
      prediction |-> Some([numbers |-> Some(tickets[i]), tickets |-> None,
                           fixed_numbers |-> Some(MockVariant(pg).fixedNumbers)]),
      meta |-> "mock"]]

\* mockFetchPredictions(count): the records pushed, given the ticket the
\* generator returned in each turn of the loop.
mockFetchPredictions(pg, tickets) ==
  [i \in 1..Len(tickets) |->
     [predictions |-> None,
      prediction |-> Some([numbers |-> Some(tickets[i]), tickets |-> None,
                           fixed_numbers |-> Some(MockVariant(pg).fixedNumbers)]),
      meta |-> "mock"]]

\* ---- the DOM the scripts write ------------------------------------------
\* predictionCards.innerHTML
EmptyCards == [kind |-> "empty", message |-> "", tickets |-> <<>>]
ErrorCard(message) == [kind |-> "error", message |-> message, tickets |-> <<>>]
PaywallCard == [kind |-> "paywall", message |-> "", tickets |-> <<>>]
\* One card per ticket; no ticket leaves innerHTML empty.
Cards(tickets) ==
  IF Len(tickets) = 0 THEN EmptyCards
  ELSE [kind |-> "cards", message |-> "", tickets |-> [i \in 1..Len(tickets) |-> tickets[i]]]

\* predictionStateText / fortuneStateText .textContent
Message(text) == [text |-> text, count |-> 0]
LoadingMessage(count) == [text |-> "loading", count |-> count]

\* The document as the markup delivers it: the trigger enabled with the
\* markup's label, no card, the state line hidden.
InitUi ==
  [disabled |-> FALSE, label |-> "html",
   cards |-> EmptyCards, cardsHidden |-> FALSE,
   stateHidden |-> TRUE, stateText |-> Message(""),
   fortuneText |-> "empty", fortuneTextHidden |-> FALSE]

\* loto6-logic.js / loto7-logic.js setButtonLoading(isLoading)
setButtonLoading(u, isLoading) ==
  [u EXCEPT !.disabled = isLoading, !.label = IF isLoading THEN "issuing" ELSE "issue"]

\* loto7-fortune.js setButtonLoading(isLoading)
setButtonLoadingFortune(u, isLoading) ==
  [u EXCEPT !.disabled = isLoading, !.label = IF isLoading THEN "divining" ELSE @]

\* showLoading(message)
showLoading(u, message) ==
  setButtonLoading([u EXCEPT !.cards = EmptyCards, !.cardsHidden = TRUE,
                             !.stateHidden = FALSE, !.stateText = message], TRUE)

\* showError(message)
showError(u, message) ==
  setButtonLoading([u EXCEPT !.stateHidden = TRUE, !.cardsHidden = FALSE,
                             !.cards = ErrorCard(message)], FALSE)

\* loto6-logic.js / loto7-logic.js showPremiumWall()
showPremiumWall(u) ==
  setButtonLoading([u EXCEPT !.stateHidden = TRUE, !.cardsHidden = FALSE,
                             !.cards = PaywallCard], FALSE)

\* loto7-fortune.js showPremiumWall()
showPremiumWallFortune(u) ==
  setButtonLoadingFortune([u EXCEPT !.stateHidden = TRUE, !.fortuneTextHidden = FALSE,
                                    !.fortuneText = "paywall"], FALSE)

\* showFortuneLoading(message)
showFortuneLoading(u, message) ==
  [u EXCEPT !.fortuneTextHidden = TRUE, !.fortuneText = "empty",
            !.stateHidden = FALSE, !.stateText = message]

\* A showFortuneError that empties the fortune text and forgets the message.
showFortuneErrorSilent(u, message) ==
  [u EXCEPT !.fortuneTextHidden = TRUE, !.fortuneText = "empty"]

\* showFortuneError(message)
showFortuneError(u, message) ==
  [u EXCEPT !.fortuneTextHidden = TRUE, !.fortuneText = "empty",
            !.stateHidden = FALSE, !.stateText = message]

\* renderFortune(json)
renderFortune(u) ==
  [u EXCEPT !.stateHidden = TRUE, !.fortuneTextHidden = FALSE, !.fortuneText = "fortune"]

\* clearPrediction()
clearPrediction(u) == [u EXCEPT !.cards = EmptyCards]

\* renderTickets(tickets)
renderTickets(u, tickets) == [u EXCEPT !.cards = Cards(tickets)]

\* A catch block that shows its message and leaves the trigger as it is.
catchUiLeavesDisabled(pg, u, message) ==
  IF pg = "loto7fortune"
  THEN IF isPremiumRequired(message) THEN [u EXCEPT !.fortuneText = "paywall"]
       ELSE showFortuneError(u, Message(RetryLater))
  ELSE IF isPremiumRequired(message) THEN [u EXCEPT !.cards = PaywallCard]
  ELSE [u EXCEPT !.cards = ErrorCard(RetryLater)]

\* A catch block that displays the message of the error it caught.
catchUiShowsMessage(pg, u, message) ==
  IF pg = "loto7fortune"
  THEN LET u1 == setButtonLoadingFortune(u, FALSE)
       IN  IF isPremiumRequired(message) THEN showPremiumWallFortune(u1)
           ELSE showFortuneError(u1, Message(message))
  ELSE IF isPremiumRequired(message) THEN showPremiumWall(u)
  ELSE showError(u, message)

\* The catch block of the click handler of page pg, for an error with this message.
catchUi(pg, u, message) ==
  IF pg = "loto7fortune"
  THEN LET u1 == setButtonLoadingFortune(u, FALSE)
       IN  IF isPremiumRequired(message) THEN showPremiumWallFortune(u1)
           ELSE showFortuneError(u1, Message(RetryLater))
  ELSE IF isPremiumRequired(message) THEN showPremiumWall(u)
  ELSE showError(u, RetryLater)

\* The try block of the click handler of page pg from the value the
\* prediction step returned to its end.
successUi(pg, u, value, count) ==
  IF pg = "loto6"
  THEN [setButtonLoading([u EXCEPT !.cards = Cards(showPredictionsTickets(value))], FALSE)
          EXCEPT !.stateHidden = TRUE, !.cardsHidden = FALSE]
  ELSE IF pg = "loto7logic"
  THEN LET list == showPredictionsList(value, count)
       IN  [setButtonLoading([u EXCEPT !.stateHidden = TRUE, !.cardsHidden = FALSE,
                                       !.cards = Cards([i \in 1..Len(list) |-> renderPredictionCard(list[i])])],
                             FALSE)
              EXCEPT !.label = "reissue"]
  ELSE [setButtonLoadingFortune(renderTickets(renderFortune(u), TicketsOf(PredOf(Get(value.json)))), FALSE)
          EXCEPT !.label = "again"]

\* ---- issuance attempts --------------------------------------------------
IdleAttempt ==
  [pc |-> "idle", count |-> 0, drawOk |-> FALSE, headers |-> GetOptions.headers,
   reqRound |-> 0, status |-> 0,
   drawRequests |-> 0,      \* draw/latest requests this attempt has sent
   engineRequests |-> 0]    \* engine/prediction requests this attempt has sent

NoLast ==
  [outcome |-> "none", count |-> 0, status |-> 0, thrown |-> "", drawOk |-> FALSE,
   payload |-> None, value |-> NoValue, list |-> <<>>, ui |-> InitUi,
   drawRequests |-> 0, engineRequests |-> 0,
   rejected |-> FALSE]      \* the click was turned away by the birth-date check

InFlight(i) == attempts[i].pc # "idle"

\* The draw descriptor bodies: {round, draw_date}, or JSON without them.
DrawBodies == {"descriptor", "other"}
\* Number(d.round || 0), String(d.draw_date || "")
RoundOf(body) == IF body = "descriptor" THEN 7 ELSE 0
DrawDateOf(body) == IF body = "descriptor" THEN "2026-02-01" ELSE ""

\* fetchPredictionsFromEngine(count) / fetchFortuneOnce(...) run to the
\* `await fetch` of fetchWithAuth: the request leaves with these headers.
SendPrediction(a, rnd, drawOk) ==
  [a EXCEPT !.pc = "engineFetch", !.drawOk = drawOk, !.reqRound = rnd,
            !.headers = fetchWithAuthHeaders(getToken, GetOptions),
            !.engineRequests = @ + 1]

\* A catch block that sends the prediction request once more before it gives up.
CatchRetries(i, message, status, payload) ==
  IF attempts[i].engineRequests = 1
  THEN /\ attempts' = [attempts EXCEPT ![i] = SendPrediction(@, @.reqRound, @.drawOk)]
       /\ UNCHANGED <<ui, last>>
  ELSE /\ ui' = catchUi(page, ui, message)
       /\ attempts' = [attempts EXCEPT ![i] = IdleAttempt]
       /\ last' = [outcome |-> IF isPremiumRequired(message) THEN "premium" ELSE "error",
                   count |-> attempts[i].count, status |-> status, thrown |-> message,
                   drawOk |-> attempts[i].drawOk, payload |-> payload,
                   value |-> NoValue, list |-> <<>>, ui |-> catchUi(page, ui, message),
                   drawRequests |-> attempts[i].drawRequests,
                   engineRequests |-> attempts[i].engineRequests,
                   rejected |-> FALSE]

\* The attempt of slot i ends in the catch block with an error of this message.
Catch(i, message, status, payload) ==
  LET u == catchUi(page, ui, message)
  IN  /\ ui' = u
      /\ attempts' = [attempts EXCEPT ![i] = IdleAttempt]
      /\ last' = [outcome |-> IF isPremiumRequired(message) THEN "premium" ELSE "error",
                  count |-> attempts[i].count, status |-> status, thrown |-> message,
                  drawOk |-> attempts[i].drawOk, payload |-> payload,
                  value |-> NoValue, list |-> <<>>, ui |-> u,
                  drawRequests |-> attempts[i].drawRequests,
                  engineRequests |-> attempts[i].engineRequests,
                  rejected |-> FALSE]

\* The attempt of slot i ends at the end of the try block; payload is the
\* response body the value came from, if any.
Succeed(i, payload, value) ==
  LET u == successUi(page, ui, value, attempts[i].count)
  IN  /\ ui' = u
      /\ attempts' = [attempts EXCEPT ![i] = IdleAttempt]
      /\ last' = [outcome |-> "success",
                  count |-> attempts[i].count, status |-> attempts[i].status, thrown |-> "",
                  drawOk |-> attempts[i].drawOk, payload |-> payload,
                  value |-> value,
                  list |-> IF page = "loto7logic" THEN showPredictionsList(value, attempts[i].count) ELSE <<>>,
                  ui |-> u,
                  drawRequests |-> attempts[i].drawRequests,
                  engineRequests |-> attempts[i].engineRequests,
                  rejected |-> FALSE]

\* The lowest free attempt slot.
FreeSlot(i) == ~InFlight(i) /\ \A j \in 1..(i - 1) : InFlight(j)

\* A click on issueButton (the browser delivers none to a disabled button)
\* with issueSelect.value = v; on the fortune page, birth says whether
\* year, month and day are all selected.  The handler runs to its first await.
IssueClick(i, v, birth) ==
  /\ ~unloaded
  /\ page \in Pages
  /\ ~ui.disabled
  /\ FreeSlot(i)
  /\ LET count == clampInt(Finite(v), 1, 100)
         a == [IdleAttempt EXCEPT !.count = count]
     IN  IF page = "loto7fortune"
         THEN IF ~birth
              THEN /\ ui' = showFortuneError(ui, Message(SelectBirthDate))
                   /\ last' = [NoLast EXCEPT !.rejected = TRUE]
                   /\ UNCHANGED attempts
              ELSE /\ ui' = clearPrediction(showFortuneLoading(setButtonLoadingFortune(ui, TRUE),
                                                              LoadingMessage(count)))
                   /\ last' = NoLast
                   /\ attempts' = [attempts EXCEPT ![i] = SendPrediction(a, 0, FALSE)]
         ELSE /\ birth
              /\ last' = NoLast
              /\ ui' = showLoading(ui, LoadingMessage(count))
              /\ attempts' = [attempts EXCEPT ![i] =
                    IF page = "loto6" THEN [a EXCEPT !.pc = "drawFetch", !.drawRequests = @ + 1]
                    ELSE IF useMock THEN [a EXCEPT !.pc = "mockWait"]
                    ELSE SendPrediction(a, round, pageDraw = "ok")]
  /\ UNCHANGED <<token, user, location, unloaded, page, round, drawDate, pageDraw>>

\* loto6-logic.js: the fetch of fetchLatestDraw() settles.  The status is
\* not looked at: a Response of any status goes on to res.json().
DrawSettle(i, res) ==
  /\ ~unloaded
  /\ attempts[i].pc = "drawFetch"
  /\ IF res.rejected
     THEN Catch(i, "Failed to fetch", 0, None)
     ELSE /\ attempts' = [attempts EXCEPT ![i] = [@ EXCEPT !.pc = "drawJson", !.drawOk = ResOk(res)]]
          /\ UNCHANGED <<ui, last>>
  /\ UNCHANGED <<token, user, location, unloaded, page, round, drawDate, pageDraw>>

\* loto6-logic.js: `await res.json()` of fetchLatestDraw() rejects.
DrawJsonFail(i) ==
  /\ ~unloaded
  /\ attempts[i].pc = "drawJson"
  /\ Catch(i, "SyntaxError", 0, None)
  /\ UNCHANGED <<token, user, location, unloaded, page, round, drawDate, pageDraw>>

\* loto6-logic.js: `await res.json()` of fetchLatestDraw() gives the body:
\* round and drawDate are set and the prediction request is sent.
DrawJson(i, body) ==
  /\ ~unloaded
  /\ attempts[i].pc = "drawJson"
  /\ round' = RoundOf(body)
  /\ drawDate' = DrawDateOf(body)
  /\ attempts' = [attempts EXCEPT ![i] =
        IF useMock THEN [@ EXCEPT !.pc = "mockWait"]
        ELSE SendPrediction(@, RoundOf(body), @.drawOk /\ body = "descriptor")]
  /\ UNCHANGED <<token, user, location, unloaded, page, ui, pageDraw, last>>

\* The fetch of the prediction request settles: fetchWithAuth runs to its
\* end, then the status checks of the prediction client.
EngineSettle(i, res) ==
  /\ ~unloaded
  /\ attempts[i].pc = "engineFetch"
  /\ LET r == fetchWithAuthSettle(res, Store)
         thrown == IF r.thrown # "" THEN r.thrown ELSE fetchPredictionsStatus(res)
     IN  /\ SetStore(r.store)
         /\ IF thrown # ""
            THEN Catch(i, thrown, res.status, None)
            ELSE /\ attempts' = [attempts EXCEPT ![i] = [@ EXCEPT !.pc = "engineJson", !.status = res.status]]
                 /\ UNCHANGED <<ui, last>>
  /\ UNCHANGED <<unloaded, page, round, drawDate, pageDraw>>

\* `await res.json()` of the prediction response rejects.
EngineJsonFail(i) ==
  /\ ~unloaded
  /\ attempts[i].pc = "engineJson"
  /\ Catch(i, "SyntaxError", attempts[i].status, None)
  /\ UNCHANGED <<token, user, location, unloaded, page, round, drawDate, pageDraw>>

\* `await res.json()` of the prediction response gives data: the shape
\* check, then the rest of the try block.
EngineJson(i, data) ==
  /\ ~unloaded
  /\ attempts[i].pc = "engineJson"
  /\ LET r == IF page = "loto7fortune" THEN fetchFortuneOnceShape(data)
              ELSE fetchPredictionsFromEngineShape(data)
     IN  IF r.thrown # ""
         THEN Catch(i, r.thrown, attempts[i].status, Some(data))
         ELSE Succeed(i, Some(data), r.value)
  /\ UNCHANGED <<token, user, location, unloaded, page, round, drawDate, pageDraw>>

\* mockFetchPredictions(count), after `await wait(700)`: the loop builds
\* count records, the i-th with the ticket the generator returned for it,
\* and the rest of the try block runs.
MockDone(i, tickets) ==
  /\ ~unloaded
  /\ attempts[i].pc = "mockWait"
  /\ Len(tickets) = attempts[i].count
  /\ Succeed(i, None, ArrayValue(mockFetchPredictions(page, tickets)))
  /\ UNCHANGED <<token, user, location, unloaded, page, round, drawDate, pageDraw>>

\* loto7-logic.js: the fetch of the page-load fetchLatestDraw() settles;
\* a rejection or a non-OK status goes to .catch(...), which calls showError.
PageDrawSettle(res) ==
  /\ ~unloaded
  /\ pageDraw = "fetch"
  /\ IF res.rejected \/ ~ResOk(res)
     THEN /\ pageDraw' = "failed"
          /\ ui' = showError(ui, DrawInfoFailed)
     ELSE /\ pageDraw' = "json"
          /\ UNCHANGED ui
  /\ UNCHANGED <<token, user, location, unloaded, page, round, drawDate, attempts, last>>

\* loto7-logic.js: `await res.json()` of the page-load fetch rejects.
PageDrawJsonFail ==
  /\ ~unloaded
  /\ pageDraw = "json"
  /\ pageDraw' = "failed"
  /\ ui' = showError(ui, DrawInfoFailed)
  /\ UNCHANGED <<token, user, location, unloaded, page, round, drawDate, attempts, last>>

\* loto7-logic.js: `await res.json()` of the page-load fetch gives the body.
PageDrawJson(body) ==
  /\ ~unloaded
  /\ pageDraw = "json"
  /\ pageDraw' = "ok"
  /\ round' = RoundOf(body)
  /\ drawDate' = DrawDateOf(body)
  /\ UNCHANGED <<token, user, location, unloaded, page, ui, attempts, last>>

(***************************************************************************)
(* Specifications                                                          *)
(***************************************************************************)
\* The sessions a page can be opened with: logged out, or logged in with a
\* cached premium or non-premium profile.
SessionInits ==
  { [token |-> None, user |-> None] }
  \cup { [token |-> Some(t), user |-> Some(p)] : t \in Credentials, p \in Profiles }

InitSession ==
  /\ \E s \in SessionInits : token = s.token /\ user = s.user
  /\ location = HerePage
  /\ unloaded = FALSE

NoPage ==
  /\ page = "none"
  /\ ui = InitUi
  /\ round = 0
  /\ drawDate = ""
  /\ pageDraw = "none"
  /\ attempts = [i \in 1..MaxInFlight |-> IdleAttempt]
  /\ last = NoLast
  /\ useMock = USE_MOCK

NoDispatches == dispatches = [i \in 1..MaxCalls |-> IdleDispatch]
NoGen == gen = IdleGen
NoGate == gate = IdleGate
NoClamp == clamp = IdleClamp
NoCached == cached = NotRead

\* One of the three pages, just loaded: the script has run to the end of
\* its DOMContentLoaded handler.
LoadedPage ==
  /\ page \in Pages
  /\ ui = InitUi
  /\ round = 0
  /\ drawDate = ""
  /\ pageDraw = IF page = "loto7logic" THEN "fetch" ELSE "none"
  /\ attempts = [i \in 1..MaxInFlight |-> IdleAttempt]
  /\ last = NoLast

Init ==
  /\ InitSession
  /\ LoadedPage
  /\ useMock = USE_MOCK
  /\ NoDispatches
  /\ NoGen
  /\ NoGate
  /\ NoClamp
  /\ NoCached

Next ==
  \/ \E i \in 1..MaxInFlight, v \in 1..Min2(MaxSelect, SelectMax), birth \in BOOLEAN :
       IssueClick(i, v, birth) /\ UNCHANGED <<dispatches, gen, useMock, cached, gate, clamp>>
  \/ \E i \in 1..MaxInFlight, res \in Responses : DrawSettle(i, res) /\ UNCHANGED <<dispatches, gen, useMock, cached, gate, clamp>>
  \/ \E i \in 1..MaxInFlight : DrawJsonFail(i) /\ UNCHANGED <<dispatches, gen, useMock, cached, gate, clamp>>
  \/ \E i \in 1..MaxInFlight, body \in DrawBodies : DrawJson(i, body) /\ UNCHANGED <<dispatches, gen, useMock, cached, gate, clamp>>
  \/ \E i \in 1..MaxInFlight, res \in Responses : EngineSettle(i, res) /\ UNCHANGED <<dispatches, gen, useMock, cached, gate, clamp>>
  \/ \E i \in 1..MaxInFlight : EngineJsonFail(i) /\ UNCHANGED <<dispatches, gen, useMock, cached, gate, clamp>>
  \/ \E i \in 1..MaxInFlight, data \in Payloads : EngineJson(i, data) /\ UNCHANGED <<dispatches, gen, useMock, cached, gate, clamp>>
  \/ \E res \in Responses : PageDrawSettle(res) /\ UNCHANGED <<dispatches, gen, useMock, cached, gate, clamp>>
  \/ PageDrawJsonFail /\ UNCHANGED <<dispatches, gen, useMock, cached, gate, clamp>>
  \/ \E body \in DrawBodies : PageDrawJson(body) /\ UNCHANGED <<dispatches, gen, useMock, cached, gate, clamp>>
  \/ Unload /\ UNCHANGED <<dispatches, gen, useMock, cached, gate, clamp, page, ui, round, drawDate, pageDraw, attempts, last>>

Spec == Init /\ [][Next]_vars

\* One body of each shape: a predictions array, an envelope with numbers
\* only, an envelope with tickets only, an envelope without prediction.
LivePayloads ==
  { [predictions |-> Some(<<R1>>), prediction |-> None, meta |-> "env"],
    [predictions |-> None, prediction |-> Some([numbers |-> Some(T1), tickets |-> None, fixed_numbers |-> None]), meta |-> "env"],
    [predictions |-> None, prediction |-> Some([numbers |-> None, tickets |-> Some(<<T1, T2>>), fixed_numbers |-> None]), meta |-> "env"],
    [predictions |-> None, prediction |-> None, meta |-> "env"] }

\* The callbacks of the attempt of slot i: the continuations of its awaits.
AttemptStep(i) ==
  /\ \/ \E res \in Responses : DrawSettle(i, res)
     \/ DrawJsonFail(i)
     \/ \E body \in DrawBodies : DrawJson(i, body)
     \/ \E res \in Responses : EngineSettle(i, res)
     \/ EngineJsonFail(i)
     \/ \E data \in LivePayloads : EngineJson(i, data)
  /\ UNCHANGED <<dispatches, gen, useMock, cached, gate, clamp>>

\* Every network call of an attempt eventually returns a response or fails,
\* and a parsed or unparsable body follows every response: the pending
\* callback of each attempt eventually runs.
\* The page is opened by a logged-in premium user.
InitLive ==
  /\ Init
  /\ IsSome(token)
  /\ IsSome(user) /\ Get(user).is_premium

\* Next, with the engine bodies drawn from LivePayloads.
NextLive ==
  \/ \E i \in 1..MaxInFlight, v \in 1..Min2(MaxSelect, SelectMax), birth \in BOOLEAN :
       IssueClick(i, v, birth) /\ UNCHANGED <<dispatches, gen, useMock, cached, gate, clamp>>
  \/ \E i \in 1..MaxInFlight, res \in Responses : DrawSettle(i, res) /\ UNCHANGED <<dispatches, gen, useMock, cached, gate, clamp>>
  \/ \E i \in 1..MaxInFlight : DrawJsonFail(i) /\ UNCHANGED <<dispatches, gen, useMock, cached, gate, clamp>>
  \/ \E i \in 1..MaxInFlight, body \in DrawBodies : DrawJson(i, body) /\ UNCHANGED <<dispatches, gen, useMock, cached, gate, clamp>>
  \/ \E i \in 1..MaxInFlight, res \in Responses : EngineSettle(i, res) /\ UNCHANGED <<dispatches, gen, useMock, cached, gate, clamp>>
  \/ \E i \in 1..MaxInFlight : EngineJsonFail(i) /\ UNCHANGED <<dispatches, gen, useMock, cached, gate, clamp>>
  \/ \E i \in 1..MaxInFlight, data \in LivePayloads : EngineJson(i, data) /\ UNCHANGED <<dispatches, gen, useMock, cached, gate, clamp>>
  \/ \E res \in Responses : PageDrawSettle(res) /\ UNCHANGED <<dispatches, gen, useMock, cached, gate, clamp>>
  \/ PageDrawJsonFail /\ UNCHANGED <<dispatches, gen, useMock, cached, gate, clamp>>
  \/ \E body \in DrawBodies : PageDrawJson(body) /\ UNCHANGED <<dispatches, gen, useMock, cached, gate, clamp>>
  \/ Unload /\ UNCHANGED <<dispatches, gen, useMock, cached, gate, clamp, page, ui, round, drawDate, pageDraw, attempts, last>>

SpecLive ==
  /\ InitLive
  /\ [][NextLive]_vars
  /\ \A i \in 1..MaxInFlight : WF_vars(AttemptStep(i))

\* A logic page built with the switch set: const USE_MOCK = true.  The
\* fortune page has no mock path.
InitMock ==
  /\ InitSession
  /\ LoadedPage
  /\ page \in LogicPages
  /\ useMock = TRUE
  /\ NoDispatches
  /\ NoGen
  /\ NoGate
  /\ NoClamp
  /\ NoCached

\* With the switch set no attempt calls fetchWithAuth: the engine steps and
\* the navigation of its 401 branch have no part in it.
NextMock ==
  \/ \E i \in 1..MaxInFlight, v \in 1..Min2(MaxSelect, SelectMax), birth \in BOOLEAN :
       IssueClick(i, v, birth) /\ UNCHANGED <<dispatches, gen, useMock, cached, gate, clamp>>
  \/ \E i \in 1..MaxInFlight, res \in Responses : DrawSettle(i, res) /\ UNCHANGED <<dispatches, gen, useMock, cached, gate, clamp>>
  \/ \E i \in 1..MaxInFlight : DrawJsonFail(i) /\ UNCHANGED <<dispatches, gen, useMock, cached, gate, clamp>>
  \/ \E i \in 1..MaxInFlight, body \in DrawBodies : DrawJson(i, body) /\ UNCHANGED <<dispatches, gen, useMock, cached, gate, clamp>>
  \/ \E i \in 1..MaxInFlight :
       /\ attempts[i].pc = "mockWait"
       /\ \E tickets \in [1..attempts[i].count -> MockTickets(page)] : MockDone(i, tickets)
       /\ UNCHANGED <<dispatches, gen, useMock, cached, gate, clamp>>
  \/ \E res \in Responses : PageDrawSettle(res) /\ UNCHANGED <<dispatches, gen, useMock, cached, gate, clamp>>
  \/ PageDrawJsonFail /\ UNCHANGED <<dispatches, gen, useMock, cached, gate, clamp>>
  \/ \E body \in DrawBodies : PageDrawJson(body) /\ UNCHANGED <<dispatches, gen, useMock, cached, gate, clamp>>

SpecMock == InitMock /\ [][NextMock]_vars

\* The session manager alone, with direct callers of fetchWithAuth.
InitAuth ==
  /\ InitSession
  /\ NoPage
  /\ NoDispatches
  /\ NoGen
  /\ NoGate
  /\ NoClamp
  /\ NoCached

NextAuth ==
  \/ \E i \in 1..MaxCalls, options \in RequestOptions :
       DispatchCall(i, options) /\ UNCHANGED <<gen, useMock, cached, gate, clamp, page, ui, round, drawDate, pageDraw, attempts, last>>
  \/ \E i \in 1..MaxCalls, res \in Responses :
       DispatchSettle(i, res) /\ UNCHANGED <<gen, useMock, cached, gate, clamp, page, ui, round, drawDate, pageDraw, attempts, last>>
  \/ \E i \in 1..MaxCalls :
       DispatchForget(i) /\ UNCHANGED <<gen, useMock, cached, gate, clamp, page, ui, round, drawDate, pageDraw, attempts, last>>
  \/ Unload /\ UNCHANGED <<dispatches, gen, useMock, cached, gate, clamp, page, ui, round, drawDate, pageDraw, attempts, last>>

SpecAuth == InitAuth /\ [][NextAuth]_vars

\* One caller of fetchWithAuth at a time, with every combination of request
\* options; a 401 clears the token for the calls that follow.
NextHeaders ==
  \/ \E options \in AllRequestOptions :
       DispatchCall(1, options) /\ UNCHANGED <<gen, useMock, cached, gate, clamp, page, ui, round, drawDate, pageDraw, attempts, last>>
  \/ \E res \in Responses :
       DispatchSettle(1, res) /\ UNCHANGED <<gen, useMock, cached, gate, clamp, page, ui, round, drawDate, pageDraw, attempts, last>>
  \/ DispatchForget(1) /\ UNCHANGED <<gen, useMock, cached, gate, clamp, page, ui, round, drawDate, pageDraw, attempts, last>>

SpecHeaders == InitAuth /\ [][NextHeaders]_vars

\* requirePremium, called any number of times, next to direct callers of
\* fetchWithAuth whose 401 can clear the session under it.
NextGate ==
  \/ GateCall /\ UNCHANGED <<dispatches, gen, useMock, cached, clamp, page, ui, round, drawDate, pageDraw, attempts, last>>
  \/ \E res \in Responses :
       GateSettle(res) /\ UNCHANGED <<dispatches, gen, useMock, cached, clamp, page, ui, round, drawDate, pageDraw, attempts, last>>
  \/ GateJsonFail /\ UNCHANGED <<dispatches, gen, useMock, cached, clamp, page, ui, round, drawDate, pageDraw, attempts, last>>
  \/ \E body \in MeBodies :
       GateJson(body) /\ UNCHANGED <<dispatches, gen, useMock, cached, clamp, page, ui, round, drawDate, pageDraw, attempts, last>>
  \/ \E i \in 1..MaxCalls :
       DispatchCall(i, GetOptions) /\ UNCHANGED <<gen, useMock, cached, gate, clamp, page, ui, round, drawDate, pageDraw, attempts, last>>
  \/ \E i \in 1..MaxCalls, res \in Responses :
       DispatchSettle(i, res) /\ UNCHANGED <<gen, useMock, cached, gate, clamp, page, ui, round, drawDate, pageDraw, attempts, last>>
  \/ \E i \in 1..MaxCalls :
       DispatchForget(i) /\ UNCHANGED <<gen, useMock, cached, gate, clamp, page, ui, round, drawDate, pageDraw, attempts, last>>
  \/ IsPremiumRead /\ UNCHANGED <<dispatches, gen, useMock, gate, clamp, page, ui, round, drawDate, pageDraw, attempts, last>>
  \/ Logout /\ UNCHANGED <<dispatches, gen, useMock, cached, gate, clamp, page, ui, round, drawDate, pageDraw, attempts, last>>
  \/ Unload /\ UNCHANGED <<dispatches, gen, useMock, cached, gate, clamp, page, ui, round, drawDate, pageDraw, attempts, last>>

SpecGate == InitAuth /\ [][NextGate]_vars

\* The ticket generator alone, called once with any explored configuration.
InitGen ==
  /\ InitSession
  /\ token = None
  /\ NoPage
  /\ NoDispatches
  /\ NoGen
  /\ NoGate
  /\ NoClamp
  /\ NoCached

NextGen ==
  \/ GenCall /\ UNCHANGED <<token, user, location, unloaded, dispatches, useMock, cached, gate, clamp, page, ui, round, drawDate, pageDraw, attempts, last>>
  \/ GenDraw /\ UNCHANGED <<token, user, location, unloaded, dispatches, useMock, cached, gate, clamp, page, ui, round, drawDate, pageDraw, attempts, last>>
  \/ GenReturn /\ UNCHANGED <<token, user, location, unloaded, dispatches, useMock, cached, gate, clamp, page, ui, round, drawDate, pageDraw, attempts, last>>

SpecGen == InitGen /\ [][NextGen]_vars

\* clampInt alone, applied to any explored value and then to its result.
NextClamp ==
  \/ ClampCall /\ UNCHANGED <<token, user, location, unloaded, dispatches, gen, useMock, cached, gate, page, ui, round, drawDate, pageDraw, attempts, last>>
  \/ ClampAgain /\ UNCHANGED <<token, user, location, unloaded, dispatches, gen, useMock, cached, gate, page, ui, round, drawDate, pageDraw, attempts, last>>

SpecClamp == InitGen /\ [][NextClamp]_vars

(***************************************************************************)
(* Properties                                                              *)
(***************************************************************************)
InFlightSlots == {i \in 1..MaxInFlight : InFlight(i)}

\* An enabled trigger always finds a free attempt slot: MaxInFlight does not
\* cut any click off.
SlotAvailable == ~ui.disabled => \E i \in 1..MaxInFlight : ~InFlight(i)

\* The fixed retry-later message is on screen.
GenericErrorShown(u) ==
  \/ u.cards = ErrorCard(RetryLater) /\ ~u.cardsHidden
  \/ ~u.stateHidden /\ u.stateText = Message(RetryLater)

\* The number of ticket cards in predictionCards.
CardCount(u) == IF u.cards.kind = "cards" THEN Len(u.cards.tickets) ELSE 0

\* C1: at most one issuance sequence is in flight at any time, and while an
\* attempt is in flight (from Loading until it ends in Success, Error or
\* PremiumRequired) the trigger stays disabled, whatever other callback of
\* the page runs in between.
C1_TriggerDisabledWhileInFlight ==
  /\ \A i \in 1..MaxInFlight : InFlight(i) => ui.disabled
  /\ Cardinality(InFlightSlots) <= 1

\* C2: every step in which fetchWithAuth sees status 401 leaves the token
\* and the cached profile both absent and location at the login page, and
\* the call throws Unauthorized, having called removeToken, removeUser and
\* the navigation once each; token and profile are cleared in that one step,
\* for every method and body of the request.
C2_Dispatch401ClearsAndThrows ==
  [][\A i \in 1..MaxCalls :
       (dispatches[i].pc = "sent" /\ dispatches'[i].pc # "sent" /\ dispatches'[i].status = 401)
       => /\ token' = None
          /\ user' = None
          /\ location' = LoginPage
          /\ dispatches'[i].pc = "threw"
          /\ dispatches'[i].thrown = "Unauthorized"
          /\ dispatches'[i].removeTokenCalls = 1
          /\ dispatches'[i].removeUserCalls = 1
          /\ dispatches'[i].navigations = 1]_vars

\* A POST with a body got 401 while the session held a token and a profile.
C2_Witness ==
  \E i \in 1..MaxCalls :
    /\ dispatches[i].pc = "threw"
    /\ dispatches[i].status = 401
    /\ dispatches[i].options.method = "POST"
    /\ dispatches[i].options.body = "string"
    /\ IsSome(dispatches[i].headers.Authorization)
    /\ token = None /\ user = None

\* C3: an attempt whose prediction request is answered 401 does not end in
\* the Error state: the catch branch that calls showError is not taken and
\* the retry-later message is not rendered.
C3_No401InErrorPath ==
  last.status = 401 => last.outcome # "error" /\ ~GenericErrorShown(last.ui)

\* C4: an attempt ends in the paywall state exactly when the status seen by
\* the prediction request's dispatch was 403; it then leaves the trigger
\* enabled and the retry-later message not rendered.
C4_PaywallIff403 ==
  last.outcome # "none" =>
    /\ (last.outcome = "premium") <=> (last.status = 403)
    /\ last.outcome = "premium" => ~last.ui.disabled /\ ~GenericErrorShown(last.ui)

\* An attempt has just ended in the paywall state.
C4_Witness == last.outcome = "premium" /\ last.status = 403 /\ ui = last.ui

\* C5: a prediction request is in flight or answered only in attempts for
\* which the draw descriptor was obtained (a 2xx draw response whose body is
\* a descriptor); on the fortune page the round comes from the markup.
C5_PredictionOnlyAfterDraw ==
  \A i \in 1..MaxInFlight :
    (page \in LogicPages /\ attempts[i].pc \in {"engineFetch", "engineJson"}) => attempts[i].drawOk

\* C6: for a valid configuration the ticket returned has exactly total
\* elements, all distinct, all within [min, max], holds every fixed number
\* and ascends; when total equals the number of fixed numbers it is the
\* fixed set and no random number was drawn.
C6_TicketValid ==
  (gen.pc = "done" /\ ValidConfig(gen.cfg)) =>
    /\ Len(gen.out) = gen.cfg.total
    /\ Distinct(gen.out)
    /\ \A x \in SeqRange(gen.out) : gen.cfg.min <= x /\ x <= gen.cfg.max
    /\ SeqRange(gen.cfg.fixedNumbers) \subseteq SeqRange(gen.out)
    /\ Ascending(gen.out)
    /\ (gen.cfg.total = Len(gen.cfg.fixedNumbers) =>
          SeqRange(gen.out) = SeqRange(gen.cfg.fixedNumbers) /\ gen.draws = 0)

\* A ticket of three with one fixed number was completed by random draws
\* that did not arrive in ascending order.
C6_Witness ==
  /\ gen.pc = "done" /\ ValidConfig(gen.cfg)
  /\ gen.cfg.total = 3 /\ Len(gen.cfg.fixedNumbers) = 1
  /\ gen.draws > 2
  /\ gen.set # gen.out

\* The records shape (b) asks for: one per ticket for the first n tickets,
\* numbers replaced by the ticket, fixed_numbers carried through (a missing
\* list counts as empty), every other field of the envelope copied; with no
\* ticket, one record carrying prediction.numbers.
ExplodedRecords(env, n) ==
  LET pred == Get(env.prediction)
      T == TicketsOf(pred)
      rec(nums) == [predictions |-> env.predictions,
                    prediction |-> Some([numbers |-> Some(nums), tickets |-> pred.tickets,
                                         fixed_numbers |-> Some(FixedOf(pred))]),
                    meta |-> env.meta]
  IN  IF Len(T) > 0 THEN [i \in 1..Min2(n, Len(T)) |-> rec(T[i])]
      ELSE <<rec(Get(pred.numbers))>>

\* C7: on the loto7 logic page, an OK response that is a single envelope
\* with prediction.tickets = T (or, without tickets, prediction.numbers)
\* and a requested count n ends in Success with the records of shape (b).
C7_EnvelopeExploded ==
  (/\ page = "loto7logic"
   /\ IsSome(last.payload)
   /\ ~IsSome(Get(last.payload).predictions)
   /\ IsSome(Get(last.payload).prediction)
   /\ \/ Len(TicketsOf(PredOf(Get(last.payload)))) > 0
      \/ IsSome(PredOf(Get(last.payload)).numbers))
  => /\ last.outcome = "success"
     /\ last.list = ExplodedRecords(Get(last.payload), last.count)

\* C8: on the logic pages, an OK response { predictions: [r1..rk] } is
\* normalized to exactly r1..rk and the attempt ends in Success with them;
\* the loto7 logic page renders that list, one card per record.
C8_PredictionsArrayAsIs ==
  (/\ page \in LogicPages
   /\ IsSome(last.payload)
   /\ IsSome(Get(last.payload).predictions))
  => LET L == Get(Get(last.payload).predictions)
     IN  /\ last.outcome = "success"
         /\ last.value.kind = "array"
         /\ last.value.list = L
         /\ page = "loto7logic" =>
              /\ last.list = L
              /\ CardCount(last.ui) = Len(L)
              /\ \A k \in 1..Len(L) : last.ui.cards.tickets[k] = Get(Get(L[k].prediction).numbers)

\* The loto7 logic page has just shown the two records of a predictions array.
C8_Witness ==
  /\ page = "loto7logic"
  /\ last.outcome = "success"
  /\ IsSome(last.payload)
  /\ Get(last.payload).predictions = Some(<<R1, R2>>)
  /\ last.list = <<R1, R2>>
  /\ ui.cards.kind = "cards"

\* C9: a parsed OK body is refused as an invalid shape exactly when it has
\* no predictions array, no prediction.numbers and no prediction.tickets.
C9_InvalidShapeExactly ==
  IsSome(last.payload) =>
    LET data == Get(last.payload)
    IN  (last.thrown \in {InvalidShape, InvalidTickets})
        <=> (/\ ~IsSome(data.predictions)
             /\ ~IsSome(PredOf(data).numbers)
             /\ ~IsSome(PredOf(data).tickets))

\* The number of records or tickets the prediction step produced: the
\* records of a predictions array, or the tickets of an envelope; on the
\* logic pages an envelope without tickets stands for its one
\* prediction.numbers, and the loto7 logic page keeps the first count.
ProducedCount(pg, value, count) ==
  IF value.kind = "array" THEN Len(value.list)
  ELSE LET pred == PredOf(Get(value.json))
           T == TicketsOf(pred)
           n == IF Len(T) > 0 \/ pg = "loto7fortune" THEN Len(T)
                ELSE IF IsSome(pred.numbers) THEN 1 ELSE 0
       IN  IF pg = "loto7logic" THEN Min2(count, n) ELSE n

\* C10: in the Success state the number of ticket cards equals the number
\* of records or tickets the prediction step produced, and the trigger is
\* enabled.
C10_OneCardPerRecord ==
  last.outcome = "success" =>
    /\ CardCount(last.ui) = ProducedCount(page, last.value, last.count)
    /\ ~last.ui.disabled

C12_MockNoNetwork ==
  useMock =>
    /\ \A i \in 1..MaxInFlight :
         attempts[i].drawRequests = 0 /\ attempts[i].engineRequests = 0
    /\ last.drawRequests = 0 /\ last.engineRequests = 0
    /\ last.outcome \in {"none", "success"}

\* C13: every attempt that ends, ends in exactly one of success, error and
\* paywall with the trigger enabled; every attempt in flight eventually ends
\* and a disabled trigger is eventually enabled again, as long as the
\* document is not replaced by a navigation.
C13_AttemptEndsAndRearms ==
  /\ [](last.outcome # "none" =>
          last.outcome \in {"success", "error", "premium"} /\ ~last.ui.disabled)
  /\ \A i \in 1..MaxInFlight : (InFlight(i) ~> (~InFlight(i) \/ unloaded))
  /\ (ui.disabled ~> (~ui.disabled \/ unloaded))

C13_Witness ==
  /\ last.outcome = "premium"
  /\ ~ui.disabled
  /\ ui = last.ui
  /\ \A i \in 1..MaxInFlight : ~InFlight(i)
  /\ ~unloaded

\* C14: an attempt sends at most one draw-info request and at most one
\* prediction request; a request leaves only in the step of a click (a slot
\* that was idle) or in the step in which the draw descriptor of the same
\* attempt arrived, never after a failure.
C14_NoAutomaticRetry ==
  /\ [](/\ \A i \in 1..MaxInFlight :
             attempts[i].drawRequests <= 1 /\ attempts[i].engineRequests <= 1
        /\ last.drawRequests <= 1 /\ last.engineRequests <= 1)
  /\ [][\A i \in 1..MaxInFlight :
          (attempts'[i].drawRequests + attempts'[i].engineRequests
             > attempts[i].drawRequests + attempts[i].engineRequests)
          => \/ ~InFlight(i) /\ ~ui.disabled /\ ui'.disabled /\ last' = NoLast
             \/ attempts[i].pc = "drawJson" /\ attempts'[i].pc = "engineFetch"
                  /\ attempts[i].engineRequests = 0]_vars

C14_Witness ==
  /\ last.outcome = "error"
  /\ last.drawRequests = 1
  /\ last.engineRequests = 1
  /\ \A i \in 1..MaxInFlight : ~InFlight(i)

\* C15: a finished requirePremium call returned true exactly when a token
\* was stored at the call, /auth/me answered with an OK status, and the
\* parsed profile has is_premium true, and then it assigned no location; in
\* every other case it returned false and assigned the login page, the
\* unpaid variant exactly when a parsed profile has is_premium false.
C15_RequirePremium ==
  gate.pc = "done" =>
    LET premium == gate.parsed /\ IsSome(gate.body) /\ Get(gate.body).is_premium
        nonPremium == gate.parsed /\ IsSome(gate.body) /\ ~Get(gate.body).is_premium
        okAnswer == gate.responded /\ gate.status >= 200 /\ gate.status <= 299
    IN  /\ gate.returned \in {Some(TRUE), Some(FALSE)}
        /\ gate.returned = Some(TRUE) <=> (gate.hadToken /\ okAnswer /\ premium)
        /\ gate.returned = Some(TRUE) => gate.target = ""
        /\ gate.returned = Some(FALSE) => gate.target \in {LoginPage, UnpaidPage}
        /\ gate.target = UnpaidPage <=> nonPremium
        /\ gate.parsed => (gate.hadToken /\ okAnswer)

C15_Witness ==
  /\ gate.pc = "done"
  /\ gate.returned = Some(FALSE)
  /\ gate.target = UnpaidPage
  /\ location = UnpaidPage
  /\ user = Some([is_premium |-> FALSE])

\* C16: for every input (any finite number, NaN, +Infinity, -Infinity, a
\* non-number) clampInt(x, 1, 100) is an integer of 1..100, and clampInt of
\* that result is the result again.
C16_ClampTotalIdempotent ==
  /\ clamp.pc # "idle" => clamp.once \in 1..100
  /\ clamp.pc = "twice" => clamp.twice = clamp.once

C16_Witness ==
  /\ clamp.pc = "twice"
  /\ clamp.x = [cls |-> "finite", num |-> 201, den |-> 2]
  /\ clamp.once = 100
  /\ clamp.twice = 100

\* C17: every input above 100, +Infinity included, gives 100; every input
\* below 1, -Infinity included, gives 1; an input of [1, 100] gives itself
\* truncated toward zero.
C17_SnapsToNearestBound ==
  clamp.pc # "idle" =>
    LET x == clamp.x
    IN  /\ (x.cls = "posinf" \/ (x.cls = "finite" /\ x.num > 100 * x.den)) => clamp.once = 100
        /\ (x.cls = "neginf" \/ (x.cls = "finite" /\ x.num < x.den)) => clamp.once = 1
        /\ (x.cls = "finite" /\ x.num >= x.den /\ x.num <= 100 * x.den) => clamp.once = trunc(x)

\* C18: the generator returns nothing for a configuration that breaks the
\* input constraints (more fixed numbers than the ticket size, a fixed number
\* outside min..max, a repeated fixed number), and what it returns is never
\* longer than the ticket size and holds no number outside min..max.
C18_RejectsInvalidConfig ==
  gen.pc = "done" =>
    /\ Len(gen.cfg.fixedNumbers) <= gen.cfg.total
    /\ \A x \in SeqRange(gen.cfg.fixedNumbers) : gen.cfg.min <= x /\ x <= gen.cfg.max
    /\ Distinct(gen.cfg.fixedNumbers)
    /\ Len(gen.out) <= gen.cfg.total
    /\ \A x \in SeqRange(gen.out) : gen.cfg.min <= x /\ x <= gen.cfg.max

\* C19: the generator is never in its loop with the Set short of the ticket
\* size and holding every number randInt can give: from there no draw
\* enlarges the Set and the loop cannot end.
C19_NoEndlessLoop ==
  ~(/\ gen.pc = "loop"
    /\ Len(gen.set) < gen.cfg.total
    /\ \A r \in randInt(gen.cfg.min, gen.cfg.max) : SetHas(gen.set, r))

\* C20: every step in which fetchWithAuth sees a response whose status is
\* not 401 ends the call by returning the response, with the token, the
\* cached profile and the location as they were.
C20_DispatchPassesOtherStatuses ==
  [][\A i \in 1..MaxCalls :
       (dispatches[i].pc = "sent" /\ dispatches'[i].pc # "sent"
          /\ dispatches'[i].status # 0 /\ dispatches'[i].status # 401)
       => /\ dispatches'[i].pc = "returned"
          /\ dispatches'[i].thrown = ""
          /\ dispatches'[i].removeTokenCalls = 0
          /\ dispatches'[i].removeUserCalls = 0
          /\ dispatches'[i].navigations = 0
          /\ token' = token
          /\ user' = user
          /\ location' = location]_vars

C20_Witness ==
  \E i \in 1..MaxCalls :
    /\ dispatches[i].pc = "returned"
    /\ dispatches[i].status = 403
    /\ dispatches[i].options.method = "POST"
    /\ IsSome(token)
    /\ IsSome(user)
    /\ location = HerePage

\* C21 as stated: a request carries a bearer Authorization header exactly
\* when a token was stored at the call, the header is built from that token,
\* and the caller's other headers are as the caller gave them.
C21_BearerIffToken ==
  \A i \in 1..MaxCalls :
    dispatches[i].pc # "idle" =>
      LET d == dispatches[i]
      IN  /\ IsSome(d.headers.Authorization) <=> IsSome(d.tokenAtCall)
          /\ IsSome(d.tokenAtCall) =>
                d.headers.Authorization = Some([scheme |-> "Bearer", credential |-> Get(d.tokenAtCall)])
          /\ d.headers.Accept = d.options.headers.Accept
          /\ IsSome(d.options.headers.ContentType) => d.headers.ContentType = d.options.headers.ContentType

\* C21 amended: with a token stored at the call the request carries the
\* bearer header built from that token, whatever Authorization the caller
\* gave; without one the Authorization header is the caller's (none if the
\* caller gave none); the caller's other headers are as the caller gave them.
C21_BearerFromTokenElseCaller ==
  \A i \in 1..MaxCalls :
    dispatches[i].pc # "idle" =>
      LET d == dispatches[i]
      IN  /\ IsSome(d.tokenAtCall) =>
                d.headers.Authorization = Some([scheme |-> "Bearer", credential |-> Get(d.tokenAtCall)])
          /\ ~IsSome(d.tokenAtCall) => d.headers.Authorization = d.options.headers.Authorization
          /\ d.headers.Accept = d.options.headers.Accept
          /\ IsSome(d.options.headers.ContentType) => d.headers.ContentType = d.options.headers.ContentType

C21_Witness ==
  /\ dispatches[1].pc = "sent"
  /\ dispatches[1].tokenAtCall = Some("tok1")
  /\ dispatches[1].options.headers.Authorization = Some(CallerAuthorization)
  /\ dispatches[1].options.headers.Accept = Some("text/html")
  /\ dispatches[1].headers.Authorization = Some([scheme |-> "Bearer", credential |-> "tok1"])
  /\ dispatches[1].headers.Accept = Some("text/html")

\* C22 as stated: a content type is added to every request with a body of
\* any kind and no content type of the caller, a content type of the caller
\* is never replaced, and none is added to a request without a body.
C22_ContentTypeForAnyBody ==
  \A i \in 1..MaxCalls :
    dispatches[i].pc # "idle" =>
      LET d == dispatches[i]
      IN  /\ IsSome(d.options.headers.ContentType) => d.headers.ContentType = d.options.headers.ContentType
          /\ (~IsSome(d.options.headers.ContentType) /\ d.options.body # "none")
                => IsSome(d.headers.ContentType)
          /\ (~IsSome(d.options.headers.ContentType) /\ d.options.body = "none")
                => ~IsSome(d.headers.ContentType)

\* C22 amended: application/json is added exactly to the requests whose
\* body is a non-empty string and whose caller gave no Content-Type; a
\* Content-Type of the caller is never replaced; a request with no body, an
\* empty string or a body that is not a string gets none.
C22_ContentTypeForStringBody ==
  \A i \in 1..MaxCalls :
    dispatches[i].pc # "idle" =>
      LET d == dispatches[i]
      IN  /\ IsSome(d.options.headers.ContentType) => d.headers.ContentType = d.options.headers.ContentType
          /\ (~IsSome(d.options.headers.ContentType) /\ d.options.body = "string")
                => d.headers.ContentType = Some("application/json")
          /\ (~IsSome(d.options.headers.ContentType) /\ d.options.body # "string")
                => ~IsSome(d.headers.ContentType)

C22_Witness ==
  /\ dispatches[1].pc = "sent"
  /\ dispatches[1].options.body = "string"
  /\ dispatches[1].options.headers.ContentType = None
  /\ dispatches[1].headers.ContentType = Some("application/json")

\* C24: every evaluation of isPremium gives a true result exactly when a
\* profile is cached and its is_premium is true, and its step leaves the
\* token, the profile and the location as they were and starts no request.
C24_IsPremiumPureRead ==
  [][cached' # cached =>
       /\ cached'.read
       /\ cached'.result <=> (IsSome(user) /\ Get(user).is_premium)
       /\ token' = token
       /\ user' = user
       /\ location' = location
       /\ dispatches' = dispatches
       /\ gate' = gate]_vars

C24_Witness ==
  /\ cached.read
  /\ cached.result
  /\ cached.profile = Some([is_premium |-> TRUE])
  /\ user = Some([is_premium |-> TRUE])
  /\ IsSome(token)
  /\ location = HerePage

\* C25: once the token and the cached profile are both absent (after a
\* 401 or a logout, or before any login), no step brings either back.
C25_ClearedSessionStaysCleared ==
  [][(~IsSome(token) /\ ~IsSome(user)) => (~IsSome(token') /\ ~IsSome(user'))]_vars

\* The text an ended attempt put on screen: the error card's message on
\* the logic pages, the state line on the fortune page.
ErrorTextShown(u) ==
  IF page = "loto7fortune" THEN u.stateText.text ELSE u.cards.message

\* C23: every attempt that ended in Error shows the one fixed retry-later
\* message, whatever was thrown and whatever status or body came back: on
\* the logic pages as the visible error card, on the fortune page as the
\* visible state line, and no other text of the error is on screen.
C23_OneFixedErrorMessage ==
  last.outcome = "error" =>
    /\ ErrorTextShown(last.ui) = RetryLater
    /\ ErrorTextShown(last.ui) # last.thrown
    /\ IF page = "loto7fortune"
       THEN ~last.ui.stateHidden /\ last.ui.stateText = Message(RetryLater)
            /\ last.ui.fortuneText = "empty"
       ELSE ~last.ui.cardsHidden /\ last.ui.cards = ErrorCard(RetryLater)
            /\ last.ui.stateHidden

C23_Witness ==
  /\ last.outcome = "error"
  /\ last.status = 500
  /\ last.thrown # ""
  /\ last.ui.cards = ErrorCard(RetryLater)
  /\ ui = last.ui

\* C26: on the fortune page a click with an incomplete birth date is turned
\* away in its own step: no attempt starts and no request leaves, the
\* trigger is enabled before and after, the validation message is on the
\* visible state line, and token, profile and location are unchanged.
C26_IncompleteBirthDateRejected ==
  [][(last'.rejected /\ last' # last) =>
       /\ page = "loto7fortune"
       /\ attempts' = attempts
       /\ dispatches' = dispatches
       /\ last'.drawRequests = 0 /\ last'.engineRequests = 0
       /\ ~ui.disabled /\ ~ui'.disabled
       /\ ~ui'.stateHidden /\ ui'.stateText = Message(SelectBirthDate)
       /\ token' = token /\ user' = user /\ location' = location]_vars

C26_Witness ==
  /\ last.rejected
  /\ page = "loto7fortune"
  /\ ~ui.disabled
  /\ ~ui.stateHidden
  /\ ui.stateText = Message(SelectBirthDate)
  /\ \A i \in 1..MaxInFlight : ~InFlight(i)

\* Ticket cards are on screen.
TicketsShown(u) == u.cards.kind = "cards" /\ ~u.cardsHidden

\* C27: while an attempt is loading, after an attempt ended in Error or
\* PremiumRequired, and after the fortune page turned a click away, no
\* ticket card is on screen.
C27_NoStaleTickets ==
  (\/ \E i \in 1..MaxInFlight : InFlight(i)
   \/ last.outcome \in {"error", "premium"}
   \/ last.rejected)
    => ~TicketsShown(ui)

\* The trigger shows its in-progress label.
InProgressLabel(u) == u.label \in {"issuing", "divining"}

\* C28: the trigger shows its in-progress label exactly when it is disabled.
C28_InProgressLabelIffDisabled ==
  InProgressLabel(ui) <=> ui.disabled

====
